---- MODULE Spec2Model ----
(***************************************************************************)
(* Gate and RecursiveGate (src/Gate.cpp): the three-lock hand-shake between *)
(* Close / CloseFor / CloseUntil and Open, one atomic step per lock         *)
(* operation, condition-variable operation or guarded access.               *)
(*                                                                          *)
(* One instance is modelled at a time; kind says which class it is.         *)
(* std::condition_variable follows the C++ semantics: a wait ends by a      *)
(* notify_all issued while the thread is blocked, by its timeout (timed     *)
(* waits) or spuriously.  A notify_all issued while nobody is blocked is    *)
(* lost.  std::mutex::try_lock is taken to fail only when the mutex is      *)
(* held (the pthread behaviour).  lk is a unique_lock on lockMutex taken at *)
(* construction; wait unlocks it while blocked and relocks it on return,    *)
(* also for a caller that is not the constructing thread (what a pthread    *)
(* build does with a default mutex).  The token admits one waiter at a      *)
(* time, so lockMutex is never contended.                                   *)
(*                                                                          *)
(* branch .. mixed are history variables: they record what the calls did    *)
(* and are read by the properties only.  Those kept per call are cleared    *)
(* when the call returns.                                                   *)
(***************************************************************************)
EXTENDS Integers, FiniteSets, Sequences, TLC

\* ---------------------------------------------------------------- bounds
NThreads == 3
MaxOpens == 2
MaxCloses == 2

Threads == 1..NThreads
NoOne == 0

Kinds == {"Gate", "RecursiveGate"}
CloseOps == {"Close", "CloseFor", "CloseUntil"}
TimedOps == {"CloseFor", "CloseUntil"}
Ops == CloseOps \cup {"Open"}

\* The most permits a Gate holds: its permit state is one bool (Gate.cpp:15).
PermitCap == 1

\* ++ClosingAmount of a counting gate whose count is capped at PermitCap.
CappedInc(c) == IF c + 1 > PermitCap THEN PermitCap ELSE c + 1

VARIABLES
    kind,           \* which class the instance is
    mtx,            \* state guard: holder or NoOne
    condVarMutex,   \* waiter-present token: holder or NoOne
    lockMutex,      \* TRUE while lk owns lockMutex
    cv,             \* threads blocked inside cv.wait / wait_for / wait_until
    IsActivated,    \* Gate: TRUE = no permit pending
    ClosingAmount,  \* RecursiveGate: pending count
    pc,             \* per thread: position in the call it is executing
    op,             \* per thread: the call it is executing, "none" when in no call
    branch,         \* per call in progress: "park"/"pass" (Close), "queue"/"wake" (Open)
    found,          \* per Open in the wake branch: the token holder its try_lock met
    foundState,     \* ... and what that holder has done since: held/released/returned
    sawOpen,        \* per Close in progress: an Open call overlapped or followed its start
    base,           \* per Open in progress: ClosingAmount when it took the state guard
    nOpen,          \* Open calls started
    nClose,         \* Close-variant calls started
    nPark,          \* Close-variant calls that took the parking branch
    nWake,          \* Open calls that took the wake-confirmation branch
    mixed,          \* FALSE while every Open returned before the first Close started
    capped,         \* Gate: the count of a counting gate capped at PermitCap, run on the same calls
    diverged        \* Gate: some Close call parked here and not there, or there and not here

hist == <<branch, found, foundState, sawOpen, base, nOpen, nClose, nPark, nWake, mixed,
          capped, diverged>>
vars == <<kind, mtx, condVarMutex, lockMutex, cv, IsActivated, ClosingAmount, pc, op,
          branch, found, foundState, sawOpen, base, nOpen, nClose, nPark, nWake, mixed,
          capped, diverged>>

InOpen == {t \in Threads : op[t] = "Open"}
InClose == {t \in Threads : op[t] \in CloseOps}
Quiet == \A t \in Threads : pc[t] = "idle"

TypeOK ==
    /\ kind \in Kinds
    /\ mtx \in Threads \cup {NoOne}
    /\ condVarMutex \in Threads \cup {NoOne}
    /\ lockMutex \in BOOLEAN
    /\ cv \subseteq Threads
    /\ IsActivated \in BOOLEAN
    /\ ClosingAmount \in Int
    /\ capped \in Int
    /\ diverged \in BOOLEAN
    /\ \A t \in Threads : op[t] \in Ops \cup {"none"}

\* State after construction: Gate.cpp:12-15 and 112-115.
Init ==
    /\ kind \in Kinds
    /\ mtx = NoOne
    /\ condVarMutex = NoOne
    /\ lockMutex = TRUE
    /\ cv = {}
    /\ IsActivated = TRUE
    /\ ClosingAmount = 0
    /\ pc = [t \in Threads |-> "idle"]
    /\ op = [t \in Threads |-> "none"]
    /\ branch = [t \in Threads |-> "none"]
    /\ found = [t \in Threads |-> NoOne]
    /\ foundState = [t \in Threads |-> "none"]
    /\ sawOpen = [t \in Threads |-> FALSE]
    /\ base = [t \in Threads |-> 0]
    /\ nOpen = 0
    /\ nClose = 0
    /\ nPark = 0
    /\ nWake = 0
    /\ mixed = FALSE
    /\ capped = 0
    /\ diverged = FALSE

\* ------------------------------------------------------------ the callers
\* A thread enters Close, CloseFor or CloseUntil.
BeginClose(t, o) ==
    /\ pc[t] = "idle"
    /\ o \in CloseOps
    /\ nClose < MaxCloses
    /\ pc' = [pc EXCEPT ![t] = "c_lock"]
    /\ op' = [op EXCEPT ![t] = o]
    /\ sawOpen' = [sawOpen EXCEPT ![t] = (InOpen # {})]
    /\ mixed' = (mixed \/ InOpen # {})
    /\ nClose' = nClose + 1
    /\ UNCHANGED <<kind, mtx, condVarMutex, lockMutex, cv, IsActivated, ClosingAmount>>
    /\ UNCHANGED <<branch, found, foundState, base, nOpen, nPark, nWake>>
    /\ UNCHANGED <<capped, diverged>>

\* A thread enters Open.
BeginOpen(t) ==
    /\ pc[t] = "idle"
    /\ nOpen < MaxOpens
    /\ pc' = [pc EXCEPT ![t] = "o_lock"]
    /\ op' = [op EXCEPT ![t] = "Open"]
    /\ sawOpen' = [u \in Threads |-> IF u \in InClose THEN TRUE ELSE sawOpen[u]]
    /\ mixed' = (mixed \/ nClose > 0)
    /\ nOpen' = nOpen + 1
    /\ UNCHANGED <<kind, mtx, condVarMutex, lockMutex, cv, IsActivated, ClosingAmount>>
    /\ UNCHANGED <<branch, found, foundState, base, nClose, nPark, nWake>>
    /\ UNCHANGED <<capped, diverged>>
\* Variant of CloseLock that goes on without taking the state guard.
CloseLock_NoGuard(t) ==
    /\ pc[t] = "c_lock"
    /\ pc' = [pc EXCEPT ![t] = "c_test"]
    /\ UNCHANGED <<kind, mtx, condVarMutex, lockMutex, cv, IsActivated, ClosingAmount, op>>
    /\ UNCHANGED hist

\* ------------------------------------------------------------------ Close
\* mtx.lock()
CloseLock(t) ==
    /\ pc[t] = "c_lock"
    /\ mtx = NoOne
    /\ mtx' = t
    /\ pc' = [pc EXCEPT ![t] = "c_test"]
    /\ UNCHANGED <<kind, condVarMutex, lockMutex, cv, IsActivated, ClosingAmount, op>>
    /\ UNCHANGED hist
\* Variant of GateCloseTest whose pass branch leaves the permit in place.
GateCloseTest_NoConsume(t) ==
    /\ pc[t] = "c_test"
    /\ kind = "Gate"
    /\ IF IsActivated
          THEN /\ pc' = [pc EXCEPT ![t] = "c_tok"]
               /\ branch' = [branch EXCEPT ![t] = "park"]
               /\ nPark' = nPark + 1
          ELSE /\ pc' = [pc EXCEPT ![t] = "c_unlock"]
               /\ branch' = [branch EXCEPT ![t] = "pass"]
               /\ UNCHANGED nPark
    /\ UNCHANGED <<kind, mtx, condVarMutex, lockMutex, cv, IsActivated, ClosingAmount, op>>
    /\ UNCHANGED <<found, foundState, sawOpen, base, nOpen, nClose, nWake, mixed>>
    /\ diverged' = (diverged \/ (IsActivated # (capped <= 0)))
    /\ UNCHANGED capped

\* Gate: if (IsActivated) { park } else { IsActivated = true; }
GateCloseTest(t) ==
    /\ pc[t] = "c_test"
    /\ kind = "Gate"
    /\ IF IsActivated
          THEN /\ pc' = [pc EXCEPT ![t] = "c_tok"]
               /\ branch' = [branch EXCEPT ![t] = "park"]
               /\ nPark' = nPark + 1
               /\ UNCHANGED IsActivated
          ELSE /\ IsActivated' = TRUE
               /\ pc' = [pc EXCEPT ![t] = "c_unlock"]
               /\ branch' = [branch EXCEPT ![t] = "pass"]
               /\ UNCHANGED nPark
    /\ UNCHANGED <<kind, mtx, condVarMutex, lockMutex, cv, ClosingAmount, op>>
    /\ UNCHANGED <<found, foundState, sawOpen, base, nOpen, nClose, nWake, mixed>>
    /\ diverged' = (diverged \/ (IsActivated # (capped <= 0)))
    /\ UNCHANGED capped

\* Variant of RGCloseTest with the threshold off by one: parks while a permit is pending.
RGCloseTest_OffByOne(t) ==
    /\ pc[t] = "c_test"
    /\ kind = "RecursiveGate"
    /\ IF ClosingAmount <= 1
          THEN /\ pc' = [pc EXCEPT ![t] = "c_tok"]
               /\ branch' = [branch EXCEPT ![t] = "park"]
               /\ nPark' = nPark + 1
          ELSE /\ pc' = [pc EXCEPT ![t] = "c_dec"]
               /\ branch' = [branch EXCEPT ![t] = "pass"]
               /\ UNCHANGED nPark
    /\ UNCHANGED <<kind, mtx, condVarMutex, lockMutex, cv, IsActivated, ClosingAmount, op>>
    /\ UNCHANGED <<found, foundState, sawOpen, base, nOpen, nClose, nWake, mixed>>
    /\ UNCHANGED <<capped, diverged>>

\* RecursiveGate: if (ClosingAmount <= 0) { park }  (the decrement follows in both cases)
RGCloseTest(t) ==
    /\ pc[t] = "c_test"
    /\ kind = "RecursiveGate"
    /\ IF ClosingAmount <= 0
          THEN /\ pc' = [pc EXCEPT ![t] = "c_tok"]
               /\ branch' = [branch EXCEPT ![t] = "park"]
               /\ nPark' = nPark + 1
          ELSE /\ pc' = [pc EXCEPT ![t] = "c_dec"]
               /\ branch' = [branch EXCEPT ![t] = "pass"]
               /\ UNCHANGED nPark
    /\ UNCHANGED <<kind, mtx, condVarMutex, lockMutex, cv, IsActivated, ClosingAmount, op>>
    /\ UNCHANGED <<found, foundState, sawOpen, base, nOpen, nClose, nWake, mixed>>
    /\ UNCHANGED <<capped, diverged>>

\* condVarMutex.lock(), with mtx still held
CloseTokLock(t) ==
    /\ pc[t] = "c_tok"
    /\ condVarMutex = NoOne
    /\ condVarMutex' = t
    /\ pc' = [pc EXCEPT ![t] = "c_mtxunlock"]
    /\ UNCHANGED <<kind, mtx, lockMutex, cv, IsActivated, ClosingAmount, op>>
    /\ UNCHANGED hist
\* Variant of CloseMtxUnlock that gives up the token together with the state guard.
CloseMtxUnlock_DropsToken(t) ==
    /\ pc[t] = "c_mtxunlock"
    /\ mtx = t
    /\ mtx' = NoOne
    /\ condVarMutex' = NoOne
    /\ pc' = [pc EXCEPT ![t] = "c_wait"]
    /\ UNCHANGED <<kind, lockMutex, cv, IsActivated, ClosingAmount, op>>
    /\ UNCHANGED hist

\* mtx.unlock() before the wait
CloseMtxUnlock(t) ==
    /\ pc[t] = "c_mtxunlock"
    /\ mtx = t
    /\ mtx' = NoOne
    /\ pc' = [pc EXCEPT ![t] = "c_wait"]
    /\ UNCHANGED <<kind, condVarMutex, lockMutex, cv, IsActivated, ClosingAmount, op>>
    /\ UNCHANGED hist

\* cv.wait(lk) / wait_for / wait_until, entry: unlock lk and block, atomically
CloseWait(t) ==
    /\ pc[t] = "c_wait"
    /\ lockMutex' = FALSE
    /\ cv' = cv \cup {t}
    /\ pc' = [pc EXCEPT ![t] = "c_parked"]
    /\ UNCHANGED <<kind, mtx, condVarMutex, IsActivated, ClosingAmount, op>>
    /\ UNCHANGED hist

\* wait_for / wait_until: the duration elapsed or the time point was reached
Timeout(t) ==
    /\ pc[t] = "c_parked"
    /\ t \in cv
    /\ op[t] \in TimedOps
    /\ cv' = cv \ {t}
    /\ pc' = [pc EXCEPT ![t] = "c_woken"]
    /\ UNCHANGED <<kind, mtx, condVarMutex, lockMutex, IsActivated, ClosingAmount, op>>
    /\ UNCHANGED hist

\* any wait may be unblocked spuriously; the code does not re-test a predicate
SpuriousWake(t) ==
    /\ pc[t] = "c_parked"
    /\ t \in cv
    /\ cv' = cv \ {t}
    /\ pc' = [pc EXCEPT ![t] = "c_woken"]
    /\ UNCHANGED <<kind, mtx, condVarMutex, lockMutex, IsActivated, ClosingAmount, op>>
    /\ UNCHANGED hist
\* Variant of CloseWoken in which leaving the wait needs the state guard to be free.
CloseWoken_NeedsGuard(t) ==
    /\ pc[t] = "c_woken"
    /\ lockMutex = FALSE
    /\ mtx = NoOne
    /\ lockMutex' = TRUE
    /\ pc' = [pc EXCEPT ![t] = "c_tokunlock"]
    /\ UNCHANGED <<kind, mtx, condVarMutex, cv, IsActivated, ClosingAmount, op>>
    /\ UNCHANGED hist

\* the wait returns: relock lk
CloseWoken(t) ==
    /\ pc[t] = "c_woken"
    /\ lockMutex = FALSE
    /\ lockMutex' = TRUE
    /\ pc' = [pc EXCEPT ![t] = "c_tokunlock"]
    /\ UNCHANGED <<kind, mtx, condVarMutex, cv, IsActivated, ClosingAmount, op>>
    /\ UNCHANGED hist

\* condVarMutex.unlock()
CloseTokUnlock(t) ==
    /\ pc[t] = "c_tokunlock"
    /\ condVarMutex = t
    /\ condVarMutex' = NoOne
    /\ foundState' = [o \in Threads |->
                        IF found[o] = t /\ foundState[o] = "held"
                           THEN "released" ELSE foundState[o]]
    /\ pc' = [pc EXCEPT ![t] = "c_relock"]
    /\ UNCHANGED <<kind, mtx, lockMutex, cv, IsActivated, ClosingAmount, op>>
    /\ UNCHANGED <<branch, found, sawOpen, base, nOpen, nClose, nPark, nWake, mixed>>
    /\ UNCHANGED <<capped, diverged>>

\* Variant of CloseRelock that goes on without waiting for the state guard.
CloseRelock_NoWait(t) ==
    /\ pc[t] = "c_relock"
    /\ pc' = [pc EXCEPT ![t] = IF kind = "Gate" THEN "c_unlock" ELSE "c_dec"]
    /\ UNCHANGED <<kind, mtx, condVarMutex, lockMutex, cv, IsActivated, ClosingAmount, op>>
    /\ UNCHANGED hist

\* mtx.lock() after the wait
CloseRelock(t) ==
    /\ pc[t] = "c_relock"
    /\ mtx = NoOne
    /\ mtx' = t
    /\ pc' = [pc EXCEPT ![t] = IF kind = "Gate" THEN "c_unlock" ELSE "c_dec"]
    /\ UNCHANGED <<kind, condVarMutex, lockMutex, cv, IsActivated, ClosingAmount, op>>
    /\ UNCHANGED hist
\* Variant of RGCloseDec that consumes nothing when the call had parked.
RGCloseDec_SkipAfterPark(t) ==
    /\ pc[t] = "c_dec"
    /\ kind = "RecursiveGate"
    /\ ClosingAmount' = IF branch[t] = "park" THEN ClosingAmount ELSE ClosingAmount - 1
    /\ pc' = [pc EXCEPT ![t] = "c_unlock"]
    /\ UNCHANGED <<kind, mtx, condVarMutex, lockMutex, cv, IsActivated, op>>
    /\ UNCHANGED hist

\* RecursiveGate: --ClosingAmount
RGCloseDec(t) ==
    /\ pc[t] = "c_dec"
    /\ kind = "RecursiveGate"
    /\ ClosingAmount' = ClosingAmount - 1
    /\ pc' = [pc EXCEPT ![t] = "c_unlock"]
    /\ UNCHANGED <<kind, mtx, condVarMutex, lockMutex, cv, IsActivated, op>>
    /\ UNCHANGED hist
\* Variant of CloseReturn in which a Gate's Close consumes the permit on its way out.
CloseReturn_Consumes(t) ==
    /\ pc[t] = "c_unlock"
    /\ mtx = t
    /\ mtx' = NoOne
    /\ IsActivated' = TRUE
    /\ pc' = [pc EXCEPT ![t] = "idle"]
    /\ op' = [op EXCEPT ![t] = "none"]
    /\ branch' = [branch EXCEPT ![t] = "none"]
    /\ sawOpen' = [sawOpen EXCEPT ![t] = FALSE]
    /\ foundState' = [o \in Threads |->
                        IF found[o] = t /\ foundState[o] = "released"
                           THEN "returned" ELSE foundState[o]]
    /\ UNCHANGED <<kind, condVarMutex, lockMutex, cv, ClosingAmount>>
    /\ UNCHANGED <<found, base, nOpen, nClose, nPark, nWake, mixed>>
    /\ capped' = IF kind = "Gate" /\ ~diverged THEN capped - 1 ELSE capped
    /\ UNCHANGED diverged

\* mtx.unlock(); the call returns
CloseReturn(t) ==
    /\ pc[t] = "c_unlock"
    /\ mtx = t
    /\ mtx' = NoOne
    /\ pc' = [pc EXCEPT ![t] = "idle"]
    /\ op' = [op EXCEPT ![t] = "none"]
    /\ branch' = [branch EXCEPT ![t] = "none"]
    /\ sawOpen' = [sawOpen EXCEPT ![t] = FALSE]
    /\ foundState' = [o \in Threads |->
                        IF found[o] = t /\ foundState[o] = "released"
                           THEN "returned" ELSE foundState[o]]
    /\ UNCHANGED <<kind, condVarMutex, lockMutex, cv, IsActivated, ClosingAmount>>
    /\ UNCHANGED <<found, base, nOpen, nClose, nPark, nWake, mixed>>
    /\ capped' = IF kind = "Gate" /\ ~diverged THEN capped - 1 ELSE capped
    /\ UNCHANGED diverged

\* ------------------------------------------------------------------- Open
\* Variant of OpenLock that enters without taking the state guard.
OpenLock_NoGuard(t) ==
    /\ pc[t] = "o_lock"
    /\ base' = [base EXCEPT ![t] = ClosingAmount]
    /\ pc' = [pc EXCEPT ![t] = "o_try"]
    /\ UNCHANGED <<kind, mtx, condVarMutex, lockMutex, cv, IsActivated, ClosingAmount, op>>
    /\ UNCHANGED <<branch, found, foundState, sawOpen, nOpen, nClose, nPark, nWake, mixed>>
    /\ UNCHANGED <<capped, diverged>>

\* mtx.lock()
OpenLock(t) ==
    /\ pc[t] = "o_lock"
    /\ mtx = NoOne
    /\ mtx' = t
    /\ base' = [base EXCEPT ![t] = ClosingAmount]
    /\ pc' = [pc EXCEPT ![t] = "o_try"]
    /\ UNCHANGED <<kind, condVarMutex, lockMutex, cv, IsActivated, ClosingAmount, op>>
    /\ UNCHANGED <<branch, found, foundState, sawOpen, nOpen, nClose, nPark, nWake, mixed>>
    /\ UNCHANGED <<capped, diverged>>

\* the first condVarMutex.try_lock(): taken -> queue branch, held -> wake branch
OpenTry(t) ==
    /\ pc[t] = "o_try"
    /\ IF condVarMutex = NoOne
          THEN /\ condVarMutex' = t
               /\ branch' = [branch EXCEPT ![t] = "queue"]
               /\ pc' = [pc EXCEPT ![t] = IF kind = "Gate" THEN "o_set" ELSE "o_tokunlock"]
               /\ UNCHANGED <<found, foundState, nWake>>
          ELSE /\ UNCHANGED condVarMutex
               /\ branch' = [branch EXCEPT ![t] = "wake"]
               /\ found' = [found EXCEPT ![t] = condVarMutex]
               /\ foundState' = [foundState EXCEPT ![t] = "held"]
               /\ nWake' = nWake + 1
               /\ pc' = [pc EXCEPT ![t] = "o_spin"]
    /\ UNCHANGED <<kind, mtx, lockMutex, cv, IsActivated, ClosingAmount, op>>
    /\ UNCHANGED <<sawOpen, base, nOpen, nClose, nPark, mixed>>
    /\ UNCHANGED <<capped, diverged>>

\* Variant of GateOpenSet that writes the flag the wrong way round.
GateOpenSet_Inverted(t) ==
    /\ pc[t] = "o_set"
    /\ kind = "Gate"
    /\ IsActivated' = TRUE
    /\ pc' = [pc EXCEPT ![t] = "o_tokunlock"]
    /\ UNCHANGED <<kind, mtx, condVarMutex, lockMutex, cv, ClosingAmount, op>>
    /\ UNCHANGED hist

\* Gate: IsActivated = false
GateOpenSet(t) ==
    /\ pc[t] = "o_set"
    /\ kind = "Gate"
    /\ IsActivated' = FALSE
    /\ pc' = [pc EXCEPT ![t] = "o_tokunlock"]
    /\ UNCHANGED <<kind, mtx, condVarMutex, lockMutex, cv, ClosingAmount, op>>
    /\ UNCHANGED hist

\* Variant of OpenSpin that leaves the loop without having taken the token.
OpenSpin_NoConfirm(t) ==
    /\ pc[t] = "o_spin"
    /\ pc' = [pc EXCEPT ![t] = IF kind = "Gate" THEN "o_unlock" ELSE "o_inc"]
    /\ UNCHANGED <<kind, mtx, condVarMutex, lockMutex, cv, IsActivated, ClosingAmount, op>>
    /\ UNCHANGED hist
\* Variant of OpenSpin that queues a permit as it leaves the loop.
OpenSpin_AlsoQueues(t) ==
    /\ pc[t] = "o_spin"
    /\ IF condVarMutex = NoOne
          THEN /\ condVarMutex' = t
               /\ IsActivated' = FALSE
               /\ pc' = [pc EXCEPT ![t] = "o_tokunlock"]
          ELSE /\ UNCHANGED <<condVarMutex, IsActivated>>
               /\ pc' = [pc EXCEPT ![t] = "o_notify"]
    /\ UNCHANGED <<kind, mtx, lockMutex, cv, ClosingAmount, op>>
    /\ UNCHANGED hist

\* while (condVarMutex.try_lock() != true): the loop test
OpenSpin(t) ==
    /\ pc[t] = "o_spin"
    /\ IF condVarMutex = NoOne
          THEN /\ condVarMutex' = t
               /\ pc' = [pc EXCEPT ![t] = "o_tokunlock"]
          ELSE /\ UNCHANGED condVarMutex
               /\ pc' = [pc EXCEPT ![t] = "o_notify"]
    /\ UNCHANGED <<kind, mtx, lockMutex, cv, IsActivated, ClosingAmount, op>>
    /\ UNCHANGED hist

\* Variant of OpenNotify whose notification reaches nobody.
OpenNotify_Lost(t) ==
    /\ pc[t] = "o_notify"
    /\ pc' = [pc EXCEPT ![t] = "o_spin"]
    /\ UNCHANGED <<kind, mtx, condVarMutex, lockMutex, cv, IsActivated, ClosingAmount, op>>
    /\ UNCHANGED hist

\* cv.notify_all(): every thread blocked in a wait is unblocked
OpenNotify(t) ==
    /\ pc[t] = "o_notify"
    /\ cv' = {}
    /\ pc' = [u \in Threads |->
                IF u = t THEN "o_spin"
                ELSE IF u \in cv THEN "c_woken"
                ELSE pc[u]]
    /\ UNCHANGED <<kind, mtx, condVarMutex, lockMutex, IsActivated, ClosingAmount, op>>
    /\ UNCHANGED hist

\* condVarMutex.unlock()
OpenTokUnlock(t) ==
    /\ pc[t] = "o_tokunlock"
    /\ condVarMutex = t
    /\ condVarMutex' = NoOne
    /\ pc' = [pc EXCEPT ![t] = IF kind = "Gate" THEN "o_unlock" ELSE "o_inc"]
    /\ UNCHANGED <<kind, mtx, lockMutex, cv, IsActivated, ClosingAmount, op>>
    /\ UNCHANGED hist
\* Variant of RGOpenInc that counts the permit only when no waiter was met.
RGOpenInc_QueueOnly(t) ==
    /\ pc[t] = "o_inc"
    /\ kind = "RecursiveGate"
    /\ ClosingAmount' = IF branch[t] = "queue" THEN ClosingAmount + 1 ELSE ClosingAmount
    /\ pc' = [pc EXCEPT ![t] = "o_unlock"]
    /\ UNCHANGED <<kind, mtx, condVarMutex, lockMutex, cv, IsActivated, op>>
    /\ UNCHANGED hist

\* RecursiveGate: ++ClosingAmount
RGOpenInc(t) ==
    /\ pc[t] = "o_inc"
    /\ kind = "RecursiveGate"
    /\ ClosingAmount' = ClosingAmount + 1
    /\ pc' = [pc EXCEPT ![t] = "o_unlock"]
    /\ UNCHANGED <<kind, mtx, condVarMutex, lockMutex, cv, IsActivated, op>>
    /\ UNCHANGED hist

\* mtx.unlock(); the call returns
OpenReturn(t) ==
    /\ pc[t] = "o_unlock"
    /\ mtx = t
    /\ mtx' = NoOne
    /\ pc' = [pc EXCEPT ![t] = "idle"]
    /\ op' = [op EXCEPT ![t] = "none"]
    /\ branch' = [branch EXCEPT ![t] = "none"]
    /\ found' = [found EXCEPT ![t] = NoOne]
    /\ foundState' = [foundState EXCEPT ![t] = "none"]
    /\ base' = [base EXCEPT ![t] = 0]
    /\ UNCHANGED <<kind, condVarMutex, lockMutex, cv, IsActivated, ClosingAmount>>
    /\ UNCHANGED <<sawOpen, nOpen, nClose, nPark, nWake, mixed>>
    /\ capped' = IF kind = "Gate" /\ ~diverged THEN CappedInc(capped) ELSE capped
    /\ UNCHANGED diverged

\* ------------------------------------------------------------ composition
\* One step of a Close-variant call in progress on thread t.
CloseStep(t) ==
    \/ CloseLock(t)
    \/ GateCloseTest(t)
    \/ RGCloseTest(t)
    \/ CloseTokLock(t)
    \/ CloseMtxUnlock(t)
    \/ CloseWait(t)
    \/ CloseWoken(t)
    \/ CloseTokUnlock(t)
    \/ CloseRelock(t)
    \/ RGCloseDec(t)
    \/ CloseReturn(t)

\* One step of an Open call in progress on thread t.
OpenStep(t) ==
    \/ OpenLock(t)
    \/ OpenTry(t)
    \/ GateOpenSet(t)
    \/ OpenSpin(t)
    \/ OpenNotify(t)
    \/ OpenTokUnlock(t)
    \/ RGOpenInc(t)
    \/ OpenReturn(t)

\* Any threads, any calls, in any interleaving.
Next ==
    \/ \E t \in Threads, o \in CloseOps : BeginClose(t, o)
    \/ \E t \in Threads : BeginOpen(t)
    \/ \E t \in Threads : CloseStep(t)
    \/ \E t \in Threads : OpenStep(t)
    \/ \E t \in Threads : Timeout(t)
    \/ \E t \in Threads : SpuriousWake(t)

Spec == Init /\ [][Next]_vars

\* Only Open and the untimed Close, and no wait ends without a notification.
NextNotify ==
    \/ \E t \in Threads : BeginClose(t, "Close")
    \/ \E t \in Threads : BeginOpen(t)
    \/ \E t \in Threads : CloseStep(t)
    \/ \E t \in Threads : OpenStep(t)

SpecNotify == Init /\ [][NextNotify]_vars

\* Thread 1 makes one call of a Close variant, thread 2 one call of Open (main: th2).
PairNext ==
    \/ \E o \in CloseOps : nClose = 0 /\ BeginClose(1, o)
    \/ nOpen = 0 /\ BeginOpen(2)
    \/ CloseStep(1)
    \/ OpenStep(2)
    \/ Timeout(1)
    \/ SpuriousWake(1)

\* Both threads are scheduled, and thread 2 does make its call.
FairPair ==
    /\ Init
    /\ [][PairNext]_vars
    /\ WF_vars(CloseStep(1))
    /\ WF_vars(OpenStep(2))
    /\ WF_vars(nOpen = 0 /\ BeginOpen(2))

\* Thread 1 calls Close variants one after the other; nobody calls Open (main: 231-245).
AloneNext ==
    \/ \E o \in CloseOps : BeginClose(1, o)
    \/ CloseStep(1)
    \/ Timeout(1)
    \/ SpuriousWake(1)

\* The thread is scheduled and time passes.
FairAlone ==
    /\ Init
    /\ [][AloneNext]_vars
    /\ WF_vars(CloseStep(1))
    /\ WF_vars(Timeout(1))
\* The number of calls each of the two threads makes (main: two each, 221-225).
Rounds == IF MaxOpens < MaxCloses THEN MaxOpens ELSE MaxCloses

\* Thread 1 calls Close() Rounds times, thread 2 calls Open() Rounds times (main: th3).
TwiceNext ==
    \/ nClose < Rounds /\ BeginClose(1, "Close")
    \/ nOpen < Rounds /\ BeginOpen(2)
    \/ CloseStep(1)
    \/ OpenStep(2)
    \/ SpuriousWake(1)

\* Both threads are scheduled and make all their calls.
FairTwice ==
    /\ Init
    /\ [][TwiceNext]_vars
    /\ WF_vars(CloseStep(1))
    /\ WF_vars(OpenStep(2))
    /\ WF_vars(nClose < Rounds /\ BeginClose(1, "Close"))
    /\ WF_vars(nOpen < Rounds /\ BeginOpen(2))
\* Thread 1 is the only caller of Close variants; every other thread calls Open.
OpenersNext ==
    \/ \E o \in CloseOps : BeginClose(1, o)
    \/ \E t \in Threads \ {1} : BeginOpen(t)
    \/ CloseStep(1)
    \/ \E t \in Threads \ {1} : OpenStep(t)
    \/ Timeout(1)
    \/ SpuriousWake(1)

\* Every thread that is inside a call is scheduled.
FairOpeners ==
    /\ Init
    /\ [][OpenersNext]_vars
    /\ WF_vars(CloseStep(1))
    /\ \A t \in Threads \ {1} : WF_vars(OpenStep(t))

\* One Close variant against one Open as in PairNext; once both have returned,
\* some thread makes the next call of a Close variant.
FollowNext ==
    \/ PairNext
    \/ \E t \in Threads, o \in CloseOps :
          Quiet /\ nClose = 1 /\ nOpen = 1 /\ BeginClose(t, o)
    \/ \E t \in Threads : CloseStep(t)
    \/ \E t \in Threads : Timeout(t)
    \/ \E t \in Threads : SpuriousWake(t)

SpecFollow == Init /\ [][FollowNext]_vars

\* ------------------------------------------------------------- properties
ParkPcs == {"c_tok", "c_mtxunlock", "c_wait", "c_parked"}
AfterWaitPcs == {"c_woken", "c_tokunlock", "c_relock", "c_dec", "c_unlock"}

\* C1: an Open call about to return has either found the token free and queued a
\* permit (Gate: flag cleared; RecursiveGate: count one above what it found), or
\* found it held and the holder has since left the wait and released the token;
\* the holder it found is not parked and does not hold the token any more.
C1_SynchronousHandOff ==
    \A o \in Threads : pc[o] = "o_unlock" =>
        \/ /\ branch[o] = "queue"
           /\ kind = "Gate" => IsActivated = FALSE
           /\ kind = "RecursiveGate" => ClosingAmount = base[o] + 1
        \/ /\ branch[o] = "wake"
           /\ foundState[o] \in {"released", "returned"}
           /\ found[o] \notin cv
           /\ condVarMutex # found[o]
           /\ pc[found[o]] \notin ParkPcs

C1_Witness ==
    \E o \in Threads :
        /\ pc[o] = "o_unlock"
        /\ branch[o] = "wake"
        /\ foundState[o] = "released"
        /\ nClose = 1
        /\ nOpen = 1

\* C2 as claimed: when an Open on a fresh Gate that met a parked Close() returns,
\* that Close() has already returned.
C2_OpenReturnsAfterCloseReturned ==
    [][\A o \in Threads :
          ( /\ kind = "Gate"
            /\ nClose = 1
            /\ nOpen = 1
            /\ pc[o] = "o_unlock"
            /\ pc'[o] = "idle"
            /\ branch[o] = "wake" )
          => foundState[o] = "returned"]_vars

\* C2 as amended: while an Open that met a Close caller is about to release the
\* state guard and return, that caller has left the wait and released the token
\* but has not returned: it is waiting for the state guard the Open still holds.
C2_OpenReturnsAfterCloseReleased ==
    \A o \in Threads :
        (pc[o] = "o_unlock" /\ branch[o] = "wake") =>
            /\ op[found[o]] \in CloseOps
            /\ pc[found[o]] = "c_relock"
            /\ mtx = o

C2_Witness ==
    \E o \in Threads :
        /\ kind = "Gate"
        /\ nClose = 1
        /\ nOpen = 1
        /\ pc[o] = "o_unlock"
        /\ branch[o] = "wake"
        /\ op[found[o]] = "Close"
        /\ pc[found[o]] = "c_relock"

\* C3: an untimed Close() that took the parking branch comes back from its wait
\* only if an Open call overlapped or followed the start of that Close().
C3_CloseReturnsOnlyAfterOpen ==
    \A t \in Threads :
        (op[t] = "Close" /\ branch[t] = "park" /\ pc[t] \in AfterWaitPcs) => sawOpen[t]

\* C4: on a fresh Gate, the first Close, started after one or more Open calls
\* returned, does not take the parking branch, and is about to return with the
\* permit consumed (IsActivated back to TRUE).
C4_OpenThenCloseDoesNotPark ==
    (kind = "Gate" /\ ~mixed /\ nOpen >= 1 /\ nClose = 1) =>
        /\ nPark = 0
        /\ \A t \in InClose :
              /\ pc[t] \notin (ParkPcs \cup (AfterWaitPcs \ {"c_dec", "c_unlock"}))
              /\ pc[t] = "c_unlock" => (branch[t] = "pass" /\ IsActivated = TRUE)
        /\ InClose = {} => IsActivated = TRUE

C4_Witness ==
    /\ kind = "Gate"
    /\ ~mixed
    /\ nOpen >= 1
    /\ nClose = 1
    /\ \E t \in Threads : pc[t] = "c_unlock" /\ branch[t] = "pass" /\ IsActivated = TRUE

\* C5: on a Gate, after one or more Open calls made before any Close, exactly one
\* of the following Close calls passes without parking, and every other one
\* parks and stays parked as long as no further Open is called.
C5_SinglePermit ==
    (kind = "Gate" /\ ~mixed /\ nOpen >= 1) =>
        LET tested == nClose - Cardinality({t \in InClose : branch[t] = "none"})
        IN  /\ tested >= 1 => nPark = tested - 1
            /\ \A t \in InClose :
                  (op[t] = "Close" /\ branch[t] = "park") => pc[t] \in ParkPcs

\* C6: on a RecursiveGate, when N Open calls returned before the first Close,
\* none of the first N Close calls parks, the count is N minus the Close calls
\* made whenever no call is in progress, and after the N-th the instance is
\* back in the state it was constructed in.
C6_RecursiveCount ==
    (kind = "RecursiveGate" /\ ~mixed /\ nClose <= nOpen) =>
        /\ nPark = 0
        /\ Quiet => ClosingAmount = nOpen - nClose
        /\ (Quiet /\ nClose = nOpen) =>
              /\ ClosingAmount = 0
              /\ mtx = NoOne
              /\ condVarMutex = NoOne
              /\ lockMutex = TRUE
              /\ cv = {}

C6_Witness ==
    /\ kind = "RecursiveGate"
    /\ ~mixed
    /\ nOpen = 2
    /\ nClose = 2
    /\ Quiet
    /\ ClosingAmount = 0

\* C7: the pending count of a RecursiveGate is never negative when only Open and
\* the untimed Close are called.
C7_CountNonNegative ==
    kind = "RecursiveGate" => ClosingAmount >= 0

\* C8: with one thread calling a Close variant and one thread calling Open, the
\* Close call, once made, eventually returns.
C8_CloseEventuallyReturns ==
    (nClose = 1) ~> (nClose = 1 /\ pc[1] = "idle")

C8_Witness ==
    /\ nClose = 1
    /\ pc[1] = "idle"
    /\ nPark = 1
    /\ nWake = 1
    /\ pc[2] = "idle"

\* C9: with one Close caller that took the parking branch and two Open calls, at
\* most one Open takes the wake-confirmation branch (the one that met the
\* waiter), the other queues, and once all three calls returned exactly one
\* permit is pending (Gate: flag cleared; RecursiveGate: count 1).
C9_NoDoubleRelease ==
    (nClose = 1 /\ nPark = 1 /\ nOpen = 2) =>
        /\ nWake <= 1
        /\ \A a, b \in Threads :
              (a # b /\ branch[a] = "wake") => branch[b] # "wake"
        /\ Quiet =>
              /\ kind = "Gate" => IsActivated = FALSE
              /\ kind = "RecursiveGate" => ClosingAmount = 1

C9_Witness ==
    /\ nClose = 1
    /\ nPark = 1
    /\ nOpen = 2
    /\ nWake = 1
    /\ Quiet

\* C10: with no Open ever called, a CloseFor or CloseUntil that was called
\* eventually returns, and an untimed Close() that parked never leaves its wait.
C10_BoundedWaitExpiry ==
    /\ \A t \in Threads : (op[t] \in TimedOps) ~> (op[t] = "none")
    /\ [](\A t \in Threads :
            (op[t] = "Close" /\ branch[t] = "park") => pc[t] \in ParkPcs)

\* C11: when the one Open found the token held (it woke the one Close caller),
\* no permit is left behind: Gate's flag still says "no permit" at every moment,
\* RecursiveGate's count is back at its starting value 0 once both calls have
\* returned, and the next Close variant, by whichever thread, takes the parking
\* branch.
C11_WakingOpenLeavesNoPermit ==
    nWake = 1 =>
        /\ kind = "Gate" => IsActivated = TRUE
        /\ (kind = "RecursiveGate" /\ Quiet /\ nClose = 1) => ClosingAmount = 0
        /\ \A t \in Threads :
              (nClose = 2 /\ op[t] \in CloseOps) => branch[t] # "pass"

C11_Witness ==
    /\ kind = "RecursiveGate"
    /\ nWake = 1
    /\ nClose = 2
    /\ \E t \in Threads : pc[t] = "c_parked"

\* C12: on a RecursiveGate, when one thread makes Rounds calls of Close() and
\* another Rounds calls of Open(), under fair scheduling all the calls return
\* and the count is back at its starting value 0.
C12_ClosesAgainstOpens ==
    (kind = "RecursiveGate") ~>
        (Quiet /\ nClose = Rounds /\ nOpen = Rounds /\ ClosingAmount = 0)

C12_Witness ==
    /\ kind = "RecursiveGate"
    /\ Quiet
    /\ nClose = Rounds
    /\ nOpen = Rounds
    /\ nPark = Rounds
    /\ nWake >= 1

\* C13: with a single thread calling Close variants, every Open call that was
\* started returns, under fair scheduling of the threads that are inside a call.
C13_OpenTerminates ==
    \A t \in Threads : (op[t] = "Open") ~> (op[t] = "none")

C13_Witness ==
    \E t \in Threads :
        /\ pc[t] = "o_tokunlock"
        /\ branch[t] = "wake"
        /\ pc[1] = "c_relock"

\* C14: on a RecursiveGate, a CloseFor or CloseUntil that parked at count 0 and
\* left its wait with no Open called has decremented the count to -1; when the
\* one Open then found the token free, the count is 0 once both calls have
\* returned, and the Close variant that follows does not pass.
C14_TimedOutWaitConsumes ==
    kind = "RecursiveGate" =>
        /\ (nOpen = 0 /\ op[1] \in TimedOps /\ pc[1] = "c_unlock") => ClosingAmount = -1
        /\ (nClose = 1 /\ nPark = 1 /\ nOpen = 1 /\ nWake = 0 /\ Quiet) => ClosingAmount = 0
        /\ \A t \in Threads :
              (nPark >= 1 /\ nWake = 0 /\ nClose = 2 /\ pc[t] \in ParkPcs \cup AfterWaitPcs)
                  => branch[t] = "park"

C14_Witness ==
    /\ kind = "RecursiveGate"
    /\ nClose = 2
    /\ nOpen = 1
    /\ nWake = 0
    /\ nPark = 2
    /\ ClosingAmount = 0
    /\ \E t \in Threads : pc[t] = "c_parked"

\* C15 as stated: every step of a thread that writes IsActivated or
\* ClosingAmount, or acquires or releases condVarMutex, is taken while that
\* thread holds mtx.
C15_EveryTokenStepUnderGuard ==
    [][\A t \in Threads :
          (/\ pc'[t] # pc[t]
           /\ \/ condVarMutex' # condVarMutex
              \/ IsActivated' # IsActivated
              \/ ClosingAmount' # ClosingAmount)
          => mtx = t]_vars

\* C15, amended: every write of IsActivated or ClosingAmount, every acquisition
\* of condVarMutex and Open's release of it are made by a thread holding mtx;
\* the one exception is the Close caller's release of condVarMutex after its
\* wait, which it makes without mtx and which changes nothing else.
C15_GuardExceptCloseRelease ==
    [][\A t \in Threads :
          (/\ pc'[t] # pc[t]
           /\ \/ condVarMutex' # condVarMutex
              \/ IsActivated' # IsActivated
              \/ ClosingAmount' # ClosingAmount)
          => \/ mtx = t
             \/ /\ pc[t] = "c_tokunlock"
                /\ mtx # t
                /\ condVarMutex = t
                /\ condVarMutex' = NoOne
                /\ IsActivated' = IsActivated
                /\ ClosingAmount' = ClosingAmount]_vars

C15_Witness ==
    \E t, o \in Threads :
        /\ pc[t] = "c_relock"
        /\ condVarMutex = NoOne
        /\ mtx = o
        /\ pc[o] \in {"o_spin", "o_notify"}

\* The threads inside cv.wait / wait_for / wait_until: blocked, or unblocked and
\* about to re-lock lockMutex.
InWait == {t \in Threads : pc[t] \in {"c_parked", "c_woken"}}

\* The positions at which a thread holds condVarMutex.
TokenPcs == {"c_mtxunlock", "c_wait", "c_parked", "c_woken", "c_tokunlock",
             "o_set", "o_tokunlock"}

\* C16 as stated: the token is held exactly when some thread is inside the
\* wait of a Close variant, and at most one thread is.
C16_TokenHeldIffParked ==
    /\ (condVarMutex # NoOne) <=> (InWait # {})
    /\ Cardinality(InWait) <= 1

\* C16, amended: at most one thread is inside the wait and it holds the token;
\* a Close caller holds the token from its condVarMutex.lock() to its
\* condVarMutex.unlock(), which is longer than the wait; an Open caller holds
\* it between its successful try_lock and its unlock, with the state guard
\* held and nobody inside the wait.
C16_WaiterHoldsToken ==
    /\ Cardinality(InWait) <= 1
    /\ \A t \in InWait : condVarMutex = t
    /\ \A t \in Threads : (condVarMutex = t) <=> (pc[t] \in TokenPcs)
    /\ \A t \in Threads :
          (condVarMutex = t /\ op[t] = "Open") => (mtx = t /\ InWait = {})

C16_Witness ==
    \E t, u \in Threads :
        /\ pc[t] = "c_parked"
        /\ pc[u] = "c_tok"
        /\ mtx = u

\* C17 as stated: a Gate and the capped counting gate run on the same calls
\* agree on every Close call's choice between parking and passing, and once
\* all calls have returned Gate has a permit pending exactly when the capped
\* count is PermitCap.
C17_GateIsCappedCount ==
    kind = "Gate" =>
        /\ ~diverged
        /\ Quiet => ((IsActivated = FALSE) <=> (capped = PermitCap))

\* C17, amended: the two agree while no Close call has parked, whenever the
\* state guard is free, and they agree on the first Close call that parks.
C17_AgreeUntilFirstPark ==
    kind = "Gate" =>
        /\ nPark = 0 =>
              /\ ~diverged
              /\ mtx = NoOne => ((IsActivated = FALSE) <=> (capped = PermitCap))
        /\ \A t \in Threads :
              (nPark = 1 /\ pc[t] = "c_tok" /\ branch[t] = "park") =>
                  (~diverged /\ capped <= 0)

C17_Witness ==
    /\ kind = "Gate"
    /\ nPark = 1
    /\ nOpen = 2
    /\ nClose = 2
    /\ capped = 0
    /\ ~diverged
    /\ \E t \in Threads : pc[t] = "c_tok" /\ branch[t] = "park"

\* C18: once a second untimed Close() waits for the token, holding the state
\* guard, while a first untimed Close() is parked, the two stay as they are in
\* every later state.
C18_SecondWaiterBlocksForever ==
    [][\A a, b \in Threads :
          (/\ op[a] = "Close" /\ pc[a] = "c_parked"
           /\ op[b] = "Close" /\ pc[b] = "c_tok" /\ mtx = b)
          => (pc'[a] = "c_parked" /\ pc'[b] = "c_tok" /\ mtx' = b)]_vars

\* C19: a Gate's Close variant that parked leaves the flag as it is: "no
\* permit" while no Open has been called or the Open found the token held, and
\* "permit pending" from the moment the Open found the token free (the parked
\* call had released it), through that call's re-locking and return; the
\* Close variant that follows then passes, so the two never both park.
C19_ParkedCloseKeepsFlag ==
    (kind = "Gate" /\ nPark >= 1) =>
        /\ (nClose = 1 /\ (nOpen = 0 \/ nWake = 1)) => IsActivated = TRUE
        /\ (nClose = 1 /\ nOpen = 1 /\ nWake = 0 /\ InOpen = {}) => IsActivated = FALSE
        /\ (nClose = 2 /\ nWake = 0) => nPark = 1

C19_Witness ==
    /\ kind = "Gate"
    /\ op[1] = "CloseFor"
    /\ pc[1] = "c_relock"
    /\ pc[2] = "o_unlock"
    /\ branch[2] = "queue"
    /\ IsActivated = FALSE

====
